---- MODULE Spec2Model ----
(***************************************************************************)
(* KurationAPIProcessor (kuration_api_processor.py): submit every record   *)
(* of a CSV table, wait, poll the jobs round by round until none is        *)
(* loading or the time budget is spent, then project and write the table.  *)
(*                                                                         *)
(* Strings on which the program computes (column names: strip, sorted)     *)
(* are sequences of one-character strings; strings it only stores (cell    *)
(* values, row ids) are TLA+ strings.                                      *)
(***************************************************************************)
EXTENDS Integers, Sequences, FiniteSets, TLC

VARIABLES
    df,               \* the table read from the CSV: [columns, rows]
    check_interval,   \* parameter of process_csv
    max_wait_time,    \* parameter of process_csv
    pc,               \* position in process_csv
    row_ids,          \* list of job ids, in submission order
    all_columns,      \* set of every column name seen in a poll
    results,          \* result entries of the latest completed round
    loading_rows,     \* the loading set (a list)
    still_loading,    \* the next loading set, built during a round
    updated_results,  \* the result entries built during a round
    iteration,        \* round counter
    start_time,       \* clock value after the initial wait
    now,              \* the clock, time.time()
    final_cols,       \* the column list computed by the projection
    output,           \* <<>> or <<table>>: what to_csv wrote
    log,              \* final status messages, in the order logged
    error,            \* "" or the kind of exception that ended the run
    responses,        \* observed: every submit response, in order
    submitted,        \* observed: every company_data sent, in order
    last_poll,        \* observed: per job id, what its latest poll extracted
    fetches,          \* observed: number of get_results calls made
    fetch_failed_at,  \* observed: 0, or the number of the call that failed
    sleeps,           \* observed: the sleeps performed, in order
    raw,              \* extractor harness: the raw result
    extracted         \* extractor harness: <<>> or <<result of the extractor>>

vars == <<df, check_interval, max_wait_time, pc, row_ids, all_columns, results,
          loading_rows, still_loading, updated_results, iteration, start_time,
          now, final_cols, output, log, error, responses, submitted, last_poll,
          fetches, fetch_failed_at, sleeps, raw, extracted>>

----------------------------------------------------------------------------
(* Bounds of the model *)

MaxRecords == 2
MaxCols == 2

(* time.sleep(30) before the first round *)
InitialWait == 30

CheckIntervals == {30, 80}
MaxWaitTimes == {0, 60}
(* what a get_results call may take *)
PollDurations == {0, 30}
(* what a submit_company call takes: with the initial wait, more than the
   largest max_wait_time *)
SubmitDurations == {40}

----------------------------------------------------------------------------
(* Strings as character sequences *)

Whitespace == {" ", "\t"}

CodePoint ==
    ("\t" :> 9) @@ (" " :> 32) @@ ("B" :> 66) @@ ("_" :> 95) @@ ("a" :> 97)
    @@ ("b" :> 98) @@ ("c" :> 99) @@ ("d" :> 100) @@ ("e" :> 101)
    @@ ("i" :> 105) @@ ("m" :> 109) @@ ("n" :> 110) @@ ("o" :> 111)
    @@ ("p" :> 112) @@ ("r" :> 114) @@ ("s" :> 115) @@ ("t" :> 116)
    @@ ("w" :> 119) @@ ("y" :> 121)

col_company_name == <<"c", "o", "m", "p", "a", "n", "y", "_", "n", "a", "m", "e">>
col_website == <<"w", "e", "b", "s", "i", "t", "e">>
col_row_id == <<"r", "o", "w", "_", "i", "d">>

RECURSIVE lstrip(_)
lstrip(s) ==
    IF s # <<>> /\ Head(s) \in Whitespace THEN lstrip(Tail(s)) ELSE s

RECURSIVE rstrip(_)
rstrip(s) ==
    IF s # <<>> /\ s[Len(s)] \in Whitespace
    THEN rstrip(SubSeq(s, 1, Len(s) - 1))
    ELSE s

strip(s) == rstrip(lstrip(s))

(* str < str: code point order, a proper prefix first *)
RECURSIVE StrLess(_, _)
StrLess(s, t) ==
    IF s = <<>> THEN t # <<>>
    ELSE IF t = <<>> THEN FALSE
    ELSE IF Head(s) = Head(t) THEN StrLess(Tail(s), Tail(t))
    ELSE CodePoint[Head(s)] < CodePoint[Head(t)]

(* sorted() that puts the greatest name first *)
RECURSIVE sorted_Descending(_)
sorted_Descending(S) ==
    IF S = {} THEN <<>>
    ELSE LET greatest == CHOOSE x \in S : \A y \in S \ {x} : StrLess(y, x)
         IN  <<greatest>> \o sorted_Descending(S \ {greatest})

RECURSIVE sorted(_)
sorted(S) ==
    IF S = {} THEN <<>>
    ELSE LET least == CHOOSE x \in S : \A y \in S \ {x} : StrLess(x, y)
         IN  <<least>> \o sorted(S \ {least})

Range(s) == {s[i] : i \in DOMAIN s}

EmptyDict == [k \in {} |-> ""]

(* dict.get(key, default) *)
Get(d, key, default) == IF key \in DOMAIN d THEN d[key] ELSE default

----------------------------------------------------------------------------
(* extract_column_values *)

(* A JSON value that is not an object stands in a list as [scalar |-> v];
   column.get on it raises AttributeError (line 97). *)
IsObject(column) == "scalar" \notin DOMAIN column

(* the loop with the pending flag read before the empty name is skipped *)
RECURSIVE ExtractLoop_FlagFirst(_, _, _)
ExtractLoop_FlagFirst(columns, values, is_still_loading) ==
    IF columns = <<>>
    THEN [raised |-> "", values |-> values, is_loading |-> is_still_loading]
    ELSE LET column == Head(columns)
             column_name == strip(Get(column, "column_name", <<>>))
             loading == is_still_loading \/ Get(column, "is_loading", FALSE)
         IN  IF ~IsObject(column)
             THEN [raised |-> "AttributeError", values |-> EmptyDict,
                   is_loading |-> FALSE]
             ELSE IF column_name = <<>>
             THEN ExtractLoop_FlagFirst(Tail(columns), values, loading)
             ELSE ExtractLoop_FlagFirst(
                      Tail(columns),
                      (column_name :> Get(column, "value", "")) @@ values,
                      loading)

(* lines 96-108; a raise leaves no return value: values and is_loading of a
   record with raised # "" are never read *)
RECURSIVE ExtractLoop(_, _, _)
ExtractLoop(columns, values, is_still_loading) ==
    IF columns = <<>>
    THEN [raised |-> "", values |-> values, is_loading |-> is_still_loading]
    ELSE LET column == Head(columns)
             column_name == strip(Get(column, "column_name", <<>>))
         IN  IF ~IsObject(column)
             THEN [raised |-> "AttributeError", values |-> EmptyDict,
                   is_loading |-> FALSE]
             ELSE IF column_name = <<>>
             THEN ExtractLoop(Tail(columns), values, is_still_loading)
             ELSE ExtractLoop(
                      Tail(columns),
                      (column_name :> Get(column, "value", "")) @@ values,
                      is_still_loading \/ Get(column, "is_loading", FALSE))

(* the extractor that never reports a job as loading *)
extract_column_values_Resolved(result) ==
    LET columns == IF result.kind = "list" THEN result.items ELSE <<>>
    IN  [ExtractLoop(columns, EmptyDict, FALSE) EXCEPT !.is_loading = FALSE]

(* lines 90-108 *)
extract_column_values(result) ==
    LET columns == IF result.kind = "list" THEN result.items ELSE <<>>
    IN  ExtractLoop(columns, EmptyDict, FALSE)

----------------------------------------------------------------------------
(* The inputs and the remote API *)

Record(i) ==
    (col_company_name :> ("company" \o ToString(i)))
    @@ (col_website :> ("site" \o ToString(i)))

ColumnOrders == {<<col_website, col_company_name>>}

InputTables ==
    {[columns |-> c, rows |-> [i \in 1..n |-> Record(i)]] :
        c \in ColumnOrders, n \in 0..MaxRecords}

(* The JSON bodies the save_company_data endpoint may answer the k-th
   submission with; the row ids it issues are never reused. *)
SubmitBodies(k) ==
    {[row_id |-> 100 + k],
     [row_id |-> 0],
     [error_detail |-> "invalid company", row_id |-> 100 + k],
     [error_detail |-> "invalid company"],
     [message |-> "accepted"]}

SubmitResponses(k) ==
    {[kind |-> "RequestException"]}
    \cup {[kind |-> "json", body |-> b] : b \in SubmitBodies(k)}

PollNames == {<<"a">>, <<" ", "B">>, col_website, col_row_id, <<" ">>}

(* In round k the backend reports the value "v<k>" for a column *)
PollDescriptors(k) ==
    [column_name : PollNames, value : {"v" \o ToString(k)}, is_loading : BOOLEAN]

SeqsUpTo(S, n) == UNION {[1..m -> S] : m \in 0..n}

(* What a fetch in round k may answer: a transport failure, an error
   envelope, a list of something other than objects, or a column list. The
   process model polls a backend that reports at most one column per reply;
   the extractor is checked on longer lists under ExtractSpec. *)
PollColumnLists(k) == {<<>>} \cup {<<d>> : d \in PollDescriptors(k)}

ScalarItem == [scalar |-> "text"]

FetchReplies(k) ==
    {[kind |-> "RequestException"], [kind |-> "object"],
     [kind |-> "list", items |-> <<ScalarItem>>]}
    \cup {[kind |-> "list", items |-> s] : s \in PollColumnLists(k)}

----------------------------------------------------------------------------
(* submit_company and get_results: what they return or raise *)

(* submit_company without the error_detail check of lines 59-60 *)
submit_company_NoDetailCheck(response) ==
    IF response.kind = "RequestException"
    THEN [raised |-> "RequestException", row_id |-> ""]
    ELSE IF Get(response.body, "row_id", 0) = 0
    THEN [raised |-> "Exception", row_id |-> ""]
    ELSE [raised |-> "", row_id |-> ToString(response.body.row_id)]

submit_company(response) ==
    IF response.kind = "RequestException"
    THEN [raised |-> "RequestException", row_id |-> ""]
    ELSE IF Get(response.body, "error_detail", "") # ""
    THEN [raised |-> "Exception", row_id |-> ""]
    ELSE IF Get(response.body, "row_id", 0) = 0
    THEN [raised |-> "Exception", row_id |-> ""]
    ELSE [raised |-> "", row_id |-> ToString(response.body.row_id)]

(* get_results that logs the failure and returns an empty object *)
get_results_Swallow(reply) ==
    IF reply.kind = "RequestException"
    THEN [raised |-> "", result |-> [kind |-> "object"]]
    ELSE [raised |-> "", result |-> reply]

get_results(reply) ==
    IF reply.kind = "RequestException"
    THEN [raised |-> "RequestException", result |-> reply]
    ELSE [raised |-> "", result |-> reply]

----------------------------------------------------------------------------
(* The projection: lines 182-210 *)

NaN == "NaN"

Min(S) == CHOOSE x \in S : \A y \in S : x <= y

(* next((r for r in results if r['row_id'] == row_id), None) *)
FindResult(rs, row_id) ==
    LET hits == {j \in DOMAIN rs : rs[j].row_id = row_id}
    IN  IF hits = {} THEN <<>> ELSE <<rs[Min(hits)]>>

(* the row in which the original cells win over the job's fields *)
RowData_OriginalWins(row, found) ==
    IF found # <<>>
    THEN (col_row_id :> found[1].row_id) @@ row @@ found[1].values
    ELSE row

(* lines 186-197: row.to_dict(), update(result['values']), row_id *)
RowData(row, found) ==
    IF found # <<>>
    THEN (col_row_id :> found[1].row_id) @@ found[1].values @@ row
    ELSE row

FinalData(table, rs, ids) ==
    [i \in DOMAIN table.rows |-> RowData(table.rows[i], FindResult(rs, ids[i]))]

(* pd.DataFrame(final_data).columns *)
FrameColumns(data) == UNION {DOMAIN data[i] : i \in DOMAIN data}

ApiCols(original_cols, columns) ==
    sorted((columns \ Range(original_cols)) \ {col_row_id})

FinalCols(original_cols, columns) ==
    original_cols \o <<col_row_id>> \o ApiCols(original_cols, columns)

(* final_df[final_cols]: a missing label raises KeyError *)
Reindex(data, cols) ==
    [i \in DOMAIN data |-> [c \in Range(cols) |-> Get(data[i], c, NaN)]]

----------------------------------------------------------------------------
(* process_csv *)

NoRaw == [kind |-> "object"]

Init ==
    /\ df \in InputTables
    /\ check_interval \in CheckIntervals
    /\ max_wait_time \in MaxWaitTimes
    /\ pc = "submit"
    /\ row_ids = <<>>
    /\ all_columns = {}
    /\ results = <<>>
    /\ loading_rows = <<>>
    /\ still_loading = <<>>
    /\ updated_results = <<>>
    /\ iteration = 0
    /\ start_time = 0
    /\ now = 0
    /\ final_cols = <<>>
    /\ output = <<>>
    /\ log = <<>>
    /\ error = ""
    /\ responses = <<>>
    /\ submitted = <<>>
    /\ last_poll = EmptyDict
    /\ fetches = 0
    /\ fetch_failed_at = 0
    /\ sleeps = <<>>
    /\ raw = NoRaw
    /\ extracted = <<>>

(* lines 125-132: one pass of the submission loop *)
SubmitCompany ==
    /\ pc = "submit"
    /\ Len(row_ids) < Len(df.rows)
    /\ LET index == Len(row_ids) + 1
           row == df.rows[index]
           company_data == [company_name |-> row[col_company_name],
                            website |-> row[col_website]]
       IN  \E response \in SubmitResponses(index), took \in SubmitDurations :
               LET r == submit_company(response)
               IN  /\ now' = now + took
                   /\ submitted' = Append(submitted, company_data)
                   /\ responses' = Append(responses, response)
                   /\ IF r.raised # ""
                      THEN /\ pc' = "failed"
                           /\ error' = r.raised
                           /\ UNCHANGED row_ids
                      ELSE /\ row_ids' = Append(row_ids, r.row_id)
                           /\ UNCHANGED <<pc, error>>
    /\ UNCHANGED <<df, check_interval, max_wait_time, all_columns, results,
                   loading_rows, still_loading, updated_results, iteration,
                   start_time, final_cols, output, log, last_poll,
                   fetches, fetch_failed_at, sleeps, raw, extracted>>

(* the submission loop left as soon as one record has a row id *)
AllSubmitted_AfterFirst == row_ids # <<>> \/ df.rows = <<>>

(* line 125: the for loop over the records has no record left *)
AllSubmitted == Len(row_ids) = Len(df.rows)

(* the budget counted from the start of the run *)
LoopStart_RunStart(after_wait) == 0

(* line 139: start_time = time.time(), read after the wait of line 136 *)
LoopStart(after_wait) == after_wait

(* lines 134-141: the initial wait, then the loop's variables *)
WarmUp ==
    /\ pc = "submit"
    /\ AllSubmitted
    /\ now' = now + InitialWait
    /\ sleeps' = Append(sleeps, [kind |-> "initial", seconds |-> InitialWait])
    /\ start_time' = LoopStart(now')
    /\ loading_rows' = row_ids
    /\ iteration' = 0
    /\ pc' = "loop"
    /\ UNCHANGED <<df, check_interval, max_wait_time, row_ids, all_columns,
                   results, still_loading, updated_results, final_cols, output,
                   log, error, responses, submitted, last_poll, fetches,
                   fetch_failed_at, raw, extracted>>

(* the loop condition with <= for < *)
LoopCondition_Inclusive ==
    loading_rows # <<>> /\ (now - start_time) <= max_wait_time

(* line 143: the loop condition *)
LoopCondition == loading_rows # <<>> /\ (now - start_time) < max_wait_time

(* lines 143-148: the condition holds; a round begins *)
BeginRound ==
    /\ pc = "loop"
    /\ LoopCondition
    /\ iteration' = iteration + 1
    /\ still_loading' = <<>>
    /\ updated_results' = <<>>
    /\ pc' = "poll"
    /\ UNCHANGED <<df, check_interval, max_wait_time, row_ids, all_columns,
                   results, loading_rows, start_time, now, final_cols, output,
                   log, error, responses, submitted, last_poll, fetches,
                   fetch_failed_at, sleeps, raw, extracted>>

Max(S) == CHOOSE x \in S : \A y \in S : x >= y

(* a name without its leading and trailing whitespace, by position *)
Trimmed(s) ==
    LET solid == {i \in DOMAIN s : s[i] \notin Whitespace}
    IN  IF solid = {} THEN <<>> ELSE SubSeq(s, Min(solid), Max(solid))

(* observed: some descriptor of the reply has its pending flag set *)
AnyPending(result) ==
    /\ result.kind = "list"
    /\ \E i \in DOMAIN result.items : Get(result.items[i], "is_loading", FALSE)

(* observed: some descriptor of the reply that has a name other than
   whitespace has its pending flag set *)
AnyNamedPending(result) ==
    /\ result.kind = "list"
    /\ \E i \in DOMAIN result.items :
           /\ Trimmed(Get(result.items[i], "column_name", <<>>)) # <<>>
           /\ Get(result.items[i], "is_loading", FALSE)

(* a result entry that keeps the keys of the job's entry of the round before *)
ResultEntry_Merging(row_id, values) ==
    LET old == {j \in DOMAIN results : results[j].row_id = row_id}
    IN  [row_id |-> row_id,
         values |-> IF old = {}
                    THEN values
                    ELSE values @@ results[CHOOSE j \in old : TRUE].values]

(* lines 158-161 *)
ResultEntry(row_id, values) == [row_id |-> row_id, values |-> values]

(* all_columns as the names of the latest extraction alone *)
update_Replacing(columns, keys) == keys

(* line 155: set.update *)
update(columns, keys) == columns \cup keys

(* the round's jobs taken from the end of loading_rows *)
NextRow_Backwards(loading, polled) == loading[Len(loading) - Len(polled)]

(* line 150: for row_id in loading_rows; polled holds one entry per pass *)
NextRow(loading, polled) == loading[Len(polled) + 1]

(* lines 150-168: one pass of the loop over loading_rows *)
PollRow ==
    /\ pc = "poll"
    /\ Len(updated_results) < Len(loading_rows)
    /\ LET row_id == NextRow(loading_rows, updated_results)
       IN  \E reply \in FetchReplies(iteration), took \in PollDurations :
               LET got == get_results(reply)
                   ex == extract_column_values(got.result)
               IN  /\ fetches' = fetches + 1
                   /\ fetch_failed_at' =
                          IF reply.kind = "RequestException"
                          THEN fetches + 1
                          ELSE fetch_failed_at
                   /\ now' = now + took
                   /\ IF got.raised # "" \/ ex.raised # ""
                      THEN /\ pc' = "failed"
                           /\ error' = IF got.raised # ""
                                       THEN got.raised
                                       ELSE ex.raised
                           /\ UNCHANGED <<all_columns, updated_results,
                                          still_loading, last_poll>>
                      ELSE /\ all_columns' = update(all_columns, DOMAIN ex.values)
                           /\ updated_results' =
                                  Append(updated_results, ResultEntry(row_id, ex.values))
                           /\ still_loading' =
                                  IF ex.is_loading
                                  THEN Append(still_loading, row_id)
                                  ELSE still_loading
                           /\ last_poll' =
                                  (row_id :> [values |-> ex.values,
                                              is_loading |-> ex.is_loading,
                                              iteration |-> iteration,
                                              pending |-> AnyPending(got.result),
                                              named_pending |->
                                                  AnyNamedPending(got.result)])
                                  @@ last_poll
                           /\ UNCHANGED <<pc, error>>
    /\ UNCHANGED <<df, check_interval, max_wait_time, row_ids, results,
                   loading_rows, iteration, start_time, final_cols, output,
                   log, responses, submitted, sleeps, raw, extracted>>

(* line 171: results = updated_results *)
NextResults(rs, updated) == updated

(* the next round polls every job of this round again while any is loading *)
NextLoading_Repoll(loading, still) == IF still = <<>> THEN <<>> ELSE loading

(* line 174: loading_rows = still_loading *)
NextLoading(loading, still) == still

(* the sleep taken only while the budget is not used up *)
ShouldSleep_WithinBudget(loading) ==
    loading # <<>> /\ (now - start_time) < max_wait_time

(* line 176: if loading_rows *)
ShouldSleep(loading) == loading # <<>>

(* lines 170-180: the round ends *)
EndRound ==
    /\ pc = "poll"
    /\ Len(updated_results) = Len(loading_rows)
    /\ results' = NextResults(results, updated_results)
    /\ loading_rows' = NextLoading(loading_rows, still_loading)
    /\ IF ShouldSleep(NextLoading(loading_rows, still_loading))
       THEN /\ now' = now + check_interval
            /\ sleeps' = Append(sleeps, [kind |-> "interval",
                                         seconds |-> check_interval])
       ELSE UNCHANGED <<now, sleeps>>
    /\ pc' = "loop"
    /\ UNCHANGED <<df, check_interval, max_wait_time, row_ids, all_columns,
                   still_loading, updated_results, iteration, start_time,
                   final_cols, output, log, error, responses, submitted,
                   last_poll, fetches, fetch_failed_at, raw, extracted>>

(* lines 213-219: the final status *)
FinalStatus(loading) ==
    IF loading # <<>>
    THEN <<[level |-> "warning", msg |-> "timeout", rows |-> loading]>>
    ELSE <<[level |-> "info", msg |-> "completed", rows |-> <<>>]>>

(* lines 182-219: the loop is over; project, write, report *)
Project ==
    /\ pc = "loop"
    /\ ~LoopCondition
    /\ LET final_data == FinalData(df, results, row_ids)
           cols == FinalCols(df.columns, all_columns)
       IN  /\ final_cols' = cols
           /\ IF Range(cols) \subseteq FrameColumns(final_data)
              THEN /\ output' = <<[columns |-> cols,
                                   rows |-> Reindex(final_data, cols)]>>
                   /\ log' = <<[level |-> "info", msg |-> "saved", rows |-> <<>>]>>
                             \o FinalStatus(loading_rows)
                   /\ pc' = "done"
                   /\ UNCHANGED error
              ELSE /\ pc' = "failed"
                   /\ error' = "KeyError"
                   /\ UNCHANGED <<output, log>>
    /\ UNCHANGED <<df, check_interval, max_wait_time, row_ids, all_columns,
                   results, loading_rows, still_loading, updated_results,
                   iteration, start_time, now, responses, submitted, last_poll,
                   fetches, fetch_failed_at, sleeps, raw, extracted>>

Next ==
    \/ SubmitCompany
    \/ WarmUp
    \/ BeginRound
    \/ PollRow
    \/ EndRound
    \/ Project

Spec == Init /\ [][Next]_vars

----------------------------------------------------------------------------
(* The extractor alone, on raw results of every shape *)

RawNames ==
    {<<>>, <<" ", "\t">>, <<"a">>, <<" ", "a", "\t">>, <<"a", " ", "b">>}

NameParts == {EmptyDict} \cup {[column_name |-> n] : n \in RawNames}
ValueParts == {EmptyDict} \cup {[value |-> v] : v \in {"x", "y"}}
FlagParts == {EmptyDict} \cup {[is_loading |-> f] : f \in BOOLEAN}

(* a JSON object with any subset of the three keys *)
RawDescriptors ==
    {n @@ v @@ f : n \in NameParts, v \in ValueParts, f \in FlagParts}

RawResults ==
    {[kind |-> "object"]}
    \cup {[kind |-> "list", items |-> s] :
              s \in SeqsUpTo(RawDescriptors \cup {ScalarItem}, MaxCols)}

ExtractInit ==
    /\ df = [columns |-> <<col_website, col_company_name>>, rows |-> <<>>]
    /\ check_interval = 30
    /\ max_wait_time = 0
    /\ pc = "extract"
    /\ row_ids = <<>>
    /\ all_columns = {}
    /\ results = <<>>
    /\ loading_rows = <<>>
    /\ still_loading = <<>>
    /\ updated_results = <<>>
    /\ iteration = 0
    /\ start_time = 0
    /\ now = 0
    /\ final_cols = <<>>
    /\ output = <<>>
    /\ log = <<>>
    /\ error = ""
    /\ responses = <<>>
    /\ submitted = <<>>
    /\ last_poll = EmptyDict
    /\ fetches = 0
    /\ fetch_failed_at = 0
    /\ sleeps = <<>>
    /\ raw \in RawResults
    /\ extracted = <<>>

Extract ==
    /\ pc = "extract"
    /\ extracted = <<>>
    /\ extracted' = <<extract_column_values(raw)>>
    /\ UNCHANGED <<df, check_interval, max_wait_time, pc, row_ids,
                   all_columns, results, loading_rows, still_loading,
                   updated_results, iteration, start_time, now, final_cols,
                   output, log, error, responses, submitted, last_poll,
                   fetches, fetch_failed_at, sleeps, raw>>

ExtractNext == Extract

ExtractSpec == ExtractInit /\ [][ExtractNext]_vars

----------------------------------------------------------------------------
(* Properties *)

Terminated == pc \in {"done", "failed"}

(* no submit call and no poll call ended the run *)
NoCallFailed == error \notin {"RequestException", "Exception"}

(* the loop at line 143 has been left and the projection has run *)
Projected == pc = "done" \/ error = "KeyError"

(* a submission the claim calls failed: a transport failure, an error_detail
   in the response, or no row_id in it *)
SubmitFailure(response) ==
    \/ response.kind = "RequestException"
    \/ /\ response.kind = "json"
       /\ \/ Get(response.body, "error_detail", "") # ""
          \/ "row_id" \notin DOMAIN response.body

CeilDiv(a, b) == (a + b - 1) \div b

(* the fields the latest poll of job id extracted; none if never polled *)
LatestFields(id) ==
    IF id \in DOMAIN last_poll THEN last_poll[id].values ELSE EmptyDict

(* C1: a run in which no submit and no poll call fails ends with a final
   table that has one row per input record. *)
C1_RowCount ==
    (Terminated /\ NoCallFailed)
        => (output # <<>> /\ Len(output[1].rows) = Len(df.rows))

(* the row the claim C2 describes for record i, over the written columns *)
ExpectedRow(i) ==
    LET full == (col_row_id :> row_ids[i]) @@ LatestFields(row_ids[i]) @@ df.rows[i]
    IN  [c \in Range(output[1].columns) |-> Get(full, c, NaN)]

(* C2: when the loop has ended and the table is written, the row of every
   submitted record is its original fields, its job id as row_id, and the
   fields its job's most recent poll extracted, whatever the round of that
   poll. *)
C2_RowIsLatestPoll ==
    pc = "done" => \A i \in DOMAIN row_ids : output[1].rows[i] = ExpectedRow(i)

C4_MonotonicResolution ==
    [][/\ \A j \in DOMAIN last_poll :
              ~last_poll[j].is_loading => last_poll'[j] = last_poll[j]
       /\ pc # "submit" => Range(loading_rows') \subseteq Range(loading_rows)
       /\ \A j \in DOMAIN last_poll :
              (~last_poll[j].is_loading /\ last_poll[j].iteration < iteration')
                  => j \notin Range(loading_rows')]_vars

C4_Witness ==
    /\ pc = "poll"
    /\ iteration = 2
    /\ Len(updated_results) = Len(loading_rows)
    /\ \E j \in DOMAIN last_poll :
          ~last_poll[j].is_loading /\ last_poll[j].iteration = 1

(* C5: when the loop ends on the budget with jobs still loading and no call
   failed, the table is written, each still-loading job's row carries the
   fields of its last poll, and the timeout warning names exactly the loading
   set, after the save. *)
C5_TimeoutStillWrites ==
    (Terminated /\ NoCallFailed /\ loading_rows # <<>>) =>
        /\ output # <<>>
        /\ \A i \in DOMAIN row_ids :
              row_ids[i] \in Range(loading_rows) =>
                  \A k \in DOMAIN LatestFields(row_ids[i]) \ {col_row_id} :
                      /\ k \in Range(output[1].columns)
                      /\ output[1].rows[i][k] = LatestFields(row_ids[i])[k]
        /\ Len(log) = 2
        /\ log[1].msg = "saved"
        /\ log[2] = [level |-> "warning", msg |-> "timeout", rows |-> loading_rows]

WarmUps == {i \in DOMAIN sleeps : sleeps[i].kind = "initial"}

(* an upper bound on the steps the run has left: the submissions and the
   wait, then ceil(max_wait_time / check_interval) rounds of at most one poll
   per record, then the projection *)
StepsLeft ==
    LET n == Len(df.rows)
        rounds == CeilDiv(max_wait_time, check_interval) - iteration
    IN  CASE pc = "submit" -> (n - Len(row_ids)) + rounds * (n + 2) + 2
          [] pc = "loop" -> rounds * (n + 2) + 1
          [] pc = "poll" ->
                 rounds * (n + 2) + (Len(loading_rows) - Len(updated_results)) + 2
          [] OTHER -> 0

(* C6: the loop terminates: the run can always take a step until it has
   ended, and every step lowers StepsLeft, which is never negative. There is
   exactly one warm-up wait, at most ceil(max_wait_time / check_interval)
   rounds (two for 60 and 30), and at the loop's exit every job whose last
   poll was loading is in the loading set. *)
C6_BoundedRounds ==
    /\ [](/\ iteration <= CeilDiv(max_wait_time, check_interval)
          /\ Cardinality(WarmUps) <= 1
          /\ (pc \in {"loop", "poll", "done"} \/ iteration > 0) => WarmUps = {1}
          /\ Projected =>
                \A j \in DOMAIN last_poll :
                    last_poll[j].is_loading => j \in Range(loading_rows)
          /\ StepsLeft >= 0
          /\ Terminated \/ ENABLED Next)
    /\ [][StepsLeft' < StepsLeft]_vars

C6_Witness ==
    /\ pc = "done"
    /\ max_wait_time = 60
    /\ check_interval = 30
    /\ iteration = 2
    /\ loading_rows # <<>>

(* C7: a failed submission of record k ends the run in an error: nothing
   after k is submitted, there is no wait, no poll and no output. *)
C7_FailFast ==
    \A k \in DOMAIN responses :
        SubmitFailure(responses[k]) =>
            /\ pc = "failed"
            /\ error # ""
            /\ Len(responses) = k
            /\ Len(submitted) = k
            /\ Len(row_ids) = k - 1
            /\ sleeps = <<>>
            /\ fetches = 0
            /\ loading_rows = <<>>
            /\ output = <<>>
            /\ log = <<>>

C7_Witness ==
    /\ pc = "failed"
    /\ Len(row_ids) = 1
    /\ Len(responses) = 2
    /\ Len(df.rows) = 2

(* C8: a failed poll ends the run in an error at once: no retry, no further
   poll in the round or later, no output. *)
C8_PollFailureAborts ==
    fetch_failed_at # 0 =>
        /\ pc = "failed"
        /\ error = "RequestException"
        /\ fetches = fetch_failed_at
        /\ output = <<>>
        /\ log = <<>>

C8_Witness ==
    /\ fetch_failed_at # 0
    /\ iteration = 2
    /\ \E j \in DOMAIN last_poll : ~last_poll[j].is_loading

(* C9: the column sequence is the original columns in order, then row_id,
   then the other names of all_columns in ascending order; a written table
   has exactly these columns. *)
C9_ColumnOrder ==
    Projected =>
        LET n == Len(df.columns)
            api == SubSeq(final_cols, n + 2, Len(final_cols))
        IN  /\ Len(final_cols) >= n + 1
            /\ SubSeq(final_cols, 1, n) = df.columns
            /\ final_cols[n + 1] = col_row_id
            /\ Range(api) = (all_columns \ Range(df.columns)) \ {col_row_id}
            /\ \A i, j \in DOMAIN api : i < j => StrLess(api[i], api[j])
            /\ output # <<>> =>
                  /\ output[1].columns = final_cols
                  /\ \A i \in DOMAIN output[1].rows :
                        DOMAIN output[1].rows[i] = Range(final_cols)

C9_Witness ==
    /\ pc = "done"
    /\ Len(final_cols) >= Len(df.columns) + 3
    /\ col_row_id \in all_columns
    /\ col_website \in all_columns

(* C10: on a list of descriptors the extractor's keys are the trimmed names
   that are not empty, and is_loading is the OR of the pending flags of the
   descriptors with such a name. *)
C10_ExtractKeysAndFlag ==
    (/\ extracted # <<>>
     /\ raw.kind = "list"
     /\ \A i \in DOMAIN raw.items : IsObject(raw.items[i])) =>
        LET name(i) == Trimmed(Get(raw.items[i], "column_name", <<>>))
            included == {i \in DOMAIN raw.items : name(i) # <<>>}
        IN  /\ DOMAIN extracted[1].values = {name(i) : i \in included}
            /\ extracted[1].is_loading =
                   (\E i \in included : Get(raw.items[i], "is_loading", FALSE))

C10_Witness ==
    /\ extracted # <<>>
    /\ raw.kind = "list"
    /\ Len(raw.items) = 2
    /\ raw.items[1] = [column_name |-> <<" ", "\t">>, is_loading |-> TRUE]
    /\ Get(raw.items[2], "column_name", <<>>) = <<" ", "a", "\t">>
    /\ ~extracted[1].is_loading
    /\ DOMAIN extracted[1].values = {<<"a">>}

(* the payload is a list of JSON objects *)
IsDescriptorList(result) ==
    /\ result.kind = "list"
    /\ \A i \in DOMAIN result.items : IsObject(result.items[i])

Fallback == [raised |-> "", values |-> EmptyDict, is_loading |-> FALSE]

(* C11: on every payload that is not a list of descriptors the extractor
   returns, without raising, an empty mapping and is_loading = FALSE. *)
C11_LenientFallback ==
    (extracted # <<>> /\ ~IsDescriptorList(raw)) => extracted[1] = Fallback

(* the part of C11 that the code keeps: a payload that is not a list *)
C11_NonListFallback ==
    (extracted # <<>> /\ raw.kind # "list") => extracted[1] = Fallback

(* a poll has just stored its entry: the step appended to updated_results *)
Polled == Len(updated_results') = Len(updated_results) + 1

(* C12: all_columns never loses a name: every step leaves it a superset of
   what it was, a poll step adds every name of its extraction, and so it
   holds every name of every entry and of every job's latest extraction. *)
C12_AllColumnsGrow ==
    /\ [][/\ all_columns \subseteq all_columns'
          /\ Polled =>
                 DOMAIN updated_results'[Len(updated_results')].values
                     \subseteq all_columns']_vars
    /\ [](/\ \A j \in DOMAIN last_poll :
                 DOMAIN last_poll[j].values \subseteq all_columns
          /\ \A i \in DOMAIN results :
                 DOMAIN results[i].values \subseteq all_columns
          /\ \A i \in DOMAIN updated_results :
                 DOMAIN updated_results[i].values \subseteq all_columns)

(* a name seen in round 1 that no job's latest extraction holds any more *)
C12_Witness ==
    /\ iteration = 2
    /\ \E c \in all_columns :
           /\ \A j \in DOMAIN last_poll : c \notin DOMAIN last_poll[j].values
           /\ \A i \in DOMAIN updated_results :
                  c \notin DOMAIN updated_results[i].values
    /\ \E j \in DOMAIN last_poll : last_poll[j].iteration = 2

(* a round has just ended in which no polled job was still loading *)
RoundEndsResolved == pc = "poll" /\ pc' = "loop" /\ still_loading = <<>>

(* the loop is at its condition after a round that left nothing loading *)
AllResolved == pc = "loop" /\ iteration > 0 /\ loading_rows = <<>>

CompletionLog ==
    <<[level |-> "info", msg |-> "saved", rows |-> <<>>],
      [level |-> "info", msg |-> "completed", rows |-> <<>>]>>

(* C13: a round in which every polled job is seen not loading ends without
   a sleep; the next step leaves the loop without a poll or a sleep, and the
   run ends with the completion status and no timeout warning. *)
C13_ResolvedRoundCompletes ==
    /\ [][RoundEndsResolved =>
              (sleeps' = sleeps /\ now' = now /\ AllResolved')]_vars
    /\ [][AllResolved =>
              /\ fetches' = fetches
              /\ sleeps' = sleeps
              /\ iteration' = iteration
              /\ pc' = "done"
              /\ log' = CompletionLog]_vars

(* C13 without its last part: the loop is left with no further poll and no
   sleep, and a run that writes its table reports completion *)
C13_ExitWithoutSleep ==
    /\ [][RoundEndsResolved =>
              (sleeps' = sleeps /\ now' = now /\ AllResolved')]_vars
    /\ [][AllResolved =>
              /\ fetches' = fetches
              /\ sleeps' = sleeps
              /\ iteration' = iteration
              /\ Projected'
              /\ pc' = "done" => log' = CompletionLog
              /\ iteration = 1 => pc' = "done"]_vars

(* the loop is at its condition after a round: a round boundary *)
RoundBoundary == pc = "loop" /\ iteration >= 1

(* C14 as stated: at a round boundary a job is in the loading set exactly
   when some descriptor of its latest poll had the pending flag set. *)
C14_LoadingIffAnyPending ==
    RoundBoundary =>
        \A j \in Range(row_ids) :
            j \in Range(loading_rows)
                <=> (j \in DOMAIN last_poll /\ last_poll[j].pending)

(* C14 amended: at a round boundary a job is in the loading set exactly when
   some descriptor of its latest poll whose trimmed name is not empty had the
   pending flag set. *)
C14_LoadingIffNamedPending ==
    RoundBoundary =>
        \A j \in Range(row_ids) :
            j \in Range(loading_rows)
                <=> (j \in DOMAIN last_poll /\ last_poll[j].named_pending)

(* after a round, one job is loading and the other is not although its
   latest poll had a pending flag, on a descriptor without a name *)
C14_Witness ==
    /\ RoundBoundary
    /\ \E j, k \in Range(row_ids) :
           /\ j \in Range(loading_rows)
           /\ last_poll[j].named_pending
           /\ k \notin Range(loading_rows)
           /\ last_poll[k].pending
           /\ ~last_poll[k].named_pending

(* C15: in a written table, the row of a record whose job has an entry in
   results has, in every original column that the entry's fields name, the
   field's value, and in row_id the job's id whatever the fields say. *)
C15_LastWriterWins ==
    output # <<>> =>
        \A i \in DOMAIN df.rows :
            \A k \in DOMAIN results :
                results[k].row_id = row_ids[i] =>
                    /\ output[1].rows[i][col_row_id] = row_ids[i]
                    /\ \A c \in DOMAIN results[k].values
                                 \cap Range(df.columns) :
                           output[1].rows[i][c] = results[k].values[c]

(* a written table where one job's fields replaced the record's website and
   another job's fields had a row_id key that lost to the job id *)
C15_Witness ==
    /\ pc = "done"
    /\ \E i \in DOMAIN df.rows :
           \E k \in DOMAIN results :
               /\ results[k].row_id = row_ids[i]
               /\ col_website \in DOMAIN results[k].values
               /\ output[1].rows[i][col_website] # df.rows[i][col_website]
    /\ \E i \in DOMAIN df.rows :
           \E k \in DOMAIN results :
               /\ results[k].row_id = row_ids[i]
               /\ col_row_id \in DOMAIN results[k].values
               /\ results[k].values[col_row_id] # row_ids[i]
               /\ output[1].rows[i][col_row_id] = row_ids[i]

(* what submit_company is sent for record i: lines 126-129 *)
CompanyData(i) ==
    [company_name |-> df.rows[i][col_company_name],
     website |-> df.rows[i][col_website]]

(* C16: records are submitted one at a time in record order, each giving
   the job id at its position; the warm-up wait happens once, after the last
   submission and before any poll or other sleep; nothing is submitted after
   it; every poll happens after it, when row_ids has one id per record. *)
C16_PhaseOrder ==
    /\ [](/\ Len(submitted) <= Len(df.rows)
          /\ \A i \in DOMAIN submitted : submitted[i] = CompanyData(i)
          /\ Len(row_ids) <= Len(submitted)
          /\ \A i \in DOMAIN row_ids :
                 row_ids[i] = ToString(responses[i].body.row_id)
          /\ Cardinality(WarmUps) <= 1
          /\ (WarmUps = {} => sleeps = <<>> /\ fetches = 0)
          /\ (WarmUps # {} =>
                 /\ WarmUps = {1}
                 /\ Len(submitted) = Len(df.rows)
                 /\ Len(row_ids) = Len(df.rows))
          /\ (pc # "submit" /\ Len(row_ids) = Len(df.rows)) => WarmUps = {1})
    /\ [][/\ Len(submitted') \in {Len(submitted), Len(submitted) + 1}
          /\ SubSeq(submitted', 1, Len(submitted)) = submitted
          /\ SubSeq(row_ids', 1, Len(row_ids)) = row_ids
          /\ WarmUps # {} => (submitted' = submitted /\ row_ids' = row_ids)
          /\ fetches' # fetches =>
                 (WarmUps = {1} /\ Len(row_ids) = Len(df.rows))]_vars

(* two records submitted, the warm-up over, and a second round polling *)
C16_Witness ==
    /\ Len(df.rows) = 2
    /\ Len(row_ids) = 2
    /\ row_ids[1] # row_ids[2]
    /\ WarmUps = {1}
    /\ Len(sleeps) = 2
    /\ fetches = 3

Elapsed == now - start_time

(* C17: inside a round the budget is not looked at: while a job of the
   round is unpolled the next poll is enabled whatever the elapsed time, and
   the round ends only when every job of it has an entry; a round that
   leaves a job loading is followed by a sleep of check_interval whatever
   the elapsed time; the loop is left only from its condition. *)
C17_BudgetAtBoundariesOnly ==
    /\ []((pc = "poll" /\ Len(updated_results) < Len(loading_rows))
              => (ENABLED PollRow /\ ~ENABLED EndRound /\ ~ENABLED Project))
    /\ []((pc = "poll" /\ Len(updated_results) = Len(loading_rows))
              => (ENABLED EndRound /\ ~ENABLED Project))
    /\ [][(pc = "poll" /\ pc' = "loop") =>
              /\ Len(updated_results) = Len(loading_rows)
              /\ IF loading_rows' # <<>>
                 THEN /\ now' = now + check_interval
                      /\ sleeps' = Append(sleeps, [kind |-> "interval",
                                                   seconds |-> check_interval])
                 ELSE now' = now /\ sleeps' = sleeps]_vars
    /\ [][pc = "poll" => pc' \in {"poll", "loop", "failed"}]_vars

(* the second round's first poll used up the budget of 60, its second poll
   was made all the same, and the sleep after the round was taken *)
C17_Witness ==
    /\ pc = "loop"
    /\ iteration = 2
    /\ max_wait_time = 60
    /\ check_interval = 30
    /\ fetches = 4
    /\ Len(sleeps) = 3
    /\ Elapsed = 120
    /\ loading_rows # <<>>

(* the position of a job id in the order of submission *)
Position(id) == Min({i \in DOMAIN row_ids : row_ids[i] = id})

(* s holds ids of row_ids, each once, in the order of submission *)
InSubmissionOrder(s) ==
    /\ Range(s) \subseteq Range(row_ids)
    /\ \A i, j \in DOMAIN s : i < j => Position(s[i]) < Position(s[j])

(* C18: in a round the jobs are polled one per step in the order of
   loading_rows, each once: the k-th entry of the round is of the k-th job of
   loading_rows, made by the round's k-th fetch; still_loading, which becomes
   the next loading_rows, is in the order of submission. *)
C18_PollOrder ==
    /\ [](/\ InSubmissionOrder(loading_rows)
          /\ pc = "poll" =>
                 /\ InSubmissionOrder(still_loading)
                 /\ Len(updated_results) <= Len(loading_rows)
                 /\ \A i \in DOMAIN updated_results :
                        /\ updated_results[i].row_id = loading_rows[i]
                        /\ last_poll[loading_rows[i]].iteration = iteration
                 /\ still_loading =
                        SelectSeq(SubSeq(loading_rows, 1, Len(updated_results)),
                                  LAMBDA id : last_poll[id].is_loading))
    /\ [][/\ fetches' # fetches =>
                 /\ pc = "poll"
                 /\ fetches' = fetches + 1
                 /\ pc' = "poll" => Polled
          /\ Polled => fetches' = fetches + 1
          /\ (pc = "loop" /\ pc' = "poll") => updated_results' = <<>>
          /\ (pc = "poll" /\ pc' = "loop") =>
                 /\ Len(updated_results) = Len(loading_rows)
                 /\ loading_rows' = still_loading]_vars

(* a second round over two jobs, both polled, the first resolved and the
   second still loading *)
C18_Witness ==
    /\ pc = "poll"
    /\ iteration = 2
    /\ Len(loading_rows) = 2
    /\ Len(updated_results) = 2
    /\ still_loading = <<loading_rows[2]>>
    /\ fetches = 4

(* C19: the budget is counted from the end of the warm-up: the warm-up step
   sets start_time to the time after the wait, so that no time has elapsed,
   whatever the submissions took, and start_time is not written again; with
   a job and a budget above 0 the loop then starts a round and cannot be
   left, and no run reaches the projection without a round. *)
C19_BudgetFromWarmUpEnd ==
    /\ [][/\ (WarmUps = {} /\ WarmUps' # {}) =>
                 /\ now' = now + InitialWait
                 /\ start_time' = now'
                 /\ Elapsed' = 0
          /\ WarmUps # {} => start_time' = start_time]_vars
    /\ []((/\ pc = "loop"
           /\ iteration = 0
           /\ row_ids # <<>>
           /\ max_wait_time > 0) => (ENABLED BeginRound /\ ~ENABLED Project))
    /\ []((Projected /\ row_ids # <<>> /\ max_wait_time > 0)
              => (iteration >= 1 /\ fetches >= 1))

(* the submissions and the warm-up took longer than the whole budget, and
   the first round polls *)
C19_Witness ==
    /\ max_wait_time > 0
    /\ start_time > max_wait_time
    /\ Len(row_ids) = 2
    /\ iteration = 1
    /\ fetches = 1
    /\ Elapsed < max_wait_time

====
